---- MODULE Spec2Model ----
(***************************************************************************)
(* Model of the Gemini Reasoning Bridge orchestrator                       *)
(* (skills/.experimental/gemini-reasoning-bridge/scripts/pipeline.py):     *)
(* the CCC metric, the audit / revise loop of process_haystack and the     *)
(* spec-hash gate of generate_code.                                        *)
(*                                                                         *)
(* Agents are opaque: every agent response is drawn from a small set of    *)
(* raw outputs (text that is not JSON, JSON of the expected shape, JSON of *)
(* another shape).  A step of the model is one agent invocation returning  *)
(* together with all the code that runs until the next agent invocation,   *)
(* the return statement or an uncaught exception.                          *)
(***************************************************************************)
EXTENDS Integers, Sequences, FiniteSets, TLC

VARIABLES
    cfg,                 \* PipelineConfig.config, as far as the pipeline reads it
    pc,                  \* position of the process_haystack call
    normalized_evidence, \* local of process_haystack
    ranked_evidence,     \* local of process_haystack
    draft_data,          \* local of process_haystack
    audit_report,        \* local of process_haystack
    ccc_metric,          \* local of process_haystack
    revision_cycle,      \* loop variable of process_haystack
    request,             \* the agent invocation in flight
    result,              \* what the call returned
    exc,                 \* the exception that left the call, "" if none
    log,                 \* history: agent invocations and their returns, in order
    revisions,           \* history: number of revision contexts built
    ledger_in,           \* argument of a stand-alone _calculate_ccc_metric call
    metric_out,          \* its result
    spec_md,             \* argument of the generate_code call
    architecture_ledger, \* the caller's ledger dict passed to generate_code
    gen_calls,           \* history: number of generate_code calls made
    response,            \* the result object of the last agent invocation
    unfactual_only,      \* history: every draft parsed so far is an object whose
                         \* claim ledger has no factual claim
    responses,           \* history: the agent results the call received, in order
    current,             \* the process_haystack call that is executing
    suspended,           \* the locals of the other call, waiting to be resumed
    registry_file,       \* skill_registry.py: the file at REGISTRY_PATH
    reg_pc,              \* per process: position of its skill_registry.py command
    reg_op,              \* per process: the command it runs
    reg_local,           \* per process: local registry of the command
    reg_exit,            \* per process: exit status of its last command
    reg_budget,          \* per process: commands it may still start
    reg_clock,           \* what datetime.now() gives next
    reg_writes,          \* history: number of times the file was written
    reg_uses,            \* history: per name, the use commands that completed
                         \* since the name was registered while absent
    doc_pc,              \* extract_contract.py: position of main's analysis
    doc_text,            \* the contract text, as its words
    doc_risks,           \* what identify_risks returned
    doc_missing          \* what check_missing_provisions returned

runVars == <<pc, normalized_evidence, ranked_evidence, draft_data, audit_report,
             ccc_metric, revision_cycle, request, result, exc, log, revisions>>
cccVars == <<ledger_in, metric_out>>
genVars == <<spec_md, architecture_ledger, gen_calls>>
histVars == <<response, unfactual_only, responses>>
parVars == <<current, suspended>>
regVars == <<registry_file, reg_pc, reg_op, reg_local, reg_exit, reg_budget,
             reg_clock, reg_writes, reg_uses>>
docVars == <<doc_pc, doc_text, doc_risks, doc_missing>>
toolVars == <<regVars, docVars>>
bridgeVars == <<cfg, runVars, cccVars, genVars, histVars, parVars>>
vars == <<bridgeVars, toolVars>>

----------------------------------------------------------------------------
(* Bounds of the exploration *)

\* number of generate_code calls made on one orchestrator
MaxCalls == 3
\* largest pipeline.max_revision_cycles explored
MaxCycles == 3
\* longest claim ledger given to a stand-alone _calculate_ccc_metric call
MaxLedgerLen == 3
\* number of skill_registry.py commands run one after the other
MaxRegOps == 4
\* longest contract text given to extract_contract.py, in phrases
MaxPhrases == 2

----------------------------------------------------------------------------
(* Numbers: the ratio and the threshold are fractions n/d with d > 0, kept  *)
(* in lowest terms so that equal values are equal records.                  *)

RECURSIVE Gcd(_, _)
Gcd(a, b) == IF b = 0 THEN a ELSE Gcd(b, a % b)

Abs(i) == IF i < 0 THEN -i ELSE i

Frac(n, d) ==
    LET g == Gcd(Abs(n), d) IN [n |-> n \div g, d |-> d \div g]

\* a >= b on fractions
FracGE(a, b) == a.n * b.d >= b.n * a.d

\* the float 0.0
Zero == Frac(0, 1)

\* the default of .get('ccc_threshold', 0.95)
DefaultThreshold == Frac(19, 20)

----------------------------------------------------------------------------
(* Configuration *)

\* values of socratic_critic.ccc_threshold in config.yml; the code does not
\* restrict them
Thresholds == {Frac(0, 1), Frac(1, 2), Frac(3, 2)}

\* socratic_critic with or without a ccc_threshold key
CriticConfigs ==
    {[keys |-> {}, ccc_threshold |-> Zero]}
    \cup {[keys |-> {"ccc_threshold"}, ccc_threshold |-> t] : t \in Thresholds}

Configs ==
    [max_revision_cycles : (-1)..MaxCycles, socratic_critic : CriticConfigs]

----------------------------------------------------------------------------
(* Claim ledgers *)

ClaimTypes == {"factual", "opinion", "absent"}
PinpointValues == {"true", "false", "absent"}

Claim(t, p) == [claim_type |-> t, has_valid_pinpoint |-> p]

Claims == [claim_type : ClaimTypes, has_valid_pinpoint : PinpointValues]

\* a claim_ledger object: {'claims': [...]} or an object without that key
Ledger(cs) == [keys |-> {"claims"}, claims |-> cs]
LedgerNoClaims == [keys |-> {}, claims |-> <<>>]

\* claim_ledger.get('claims', [])
GetClaims(claim_ledger) ==
    IF "claims" \in claim_ledger.keys THEN claim_ledger.claims ELSE <<>>

\* c.get('claim_type') == 'factual'
IsFactual(c) == c.claim_type = "factual"

\* c.get('has_valid_pinpoint', False), as a condition
HasPinpoint(c) == c.has_valid_pinpoint = "true"

\* IsValidFactual without the claim_type test
IsValidFactualAnyType(c) == HasPinpoint(c)

\* the condition of the valid_claims comprehension
IsValidFactual(c) == IsFactual(c) /\ HasPinpoint(c)

\* valid_claims / total_claims if total_claims > 0 else 0.0
Ratio(valid_claims, total_claims) ==
    IF total_claims > 0 THEN Frac(valid_claims, total_claims) ELSE Zero

\* self.config.get_node_config('socratic_critic').get('ccc_threshold', 0.95)
ConfiguredThreshold(c) ==
    IF "ccc_threshold" \in c.socratic_critic.keys
    THEN c.socratic_critic.ccc_threshold
    ELSE DefaultThreshold

\* ReasoningBridge._calculate_ccc_metric
_calculate_ccc_metric(c, claim_ledger, sentence_map) ==
    LET total_claims == Len(SelectSeq(GetClaims(claim_ledger), IsFactual))
        valid_claims == Len(SelectSeq(GetClaims(claim_ledger), IsValidFactual))
    IN [V |-> valid_claims,
        U |-> total_claims,
        ratio |-> Ratio(valid_claims, total_claims),
        threshold |-> ConfiguredThreshold(c)]

NoMetric == [V |-> 0, U |-> 0, ratio |-> Zero, threshold |-> Zero]

----------------------------------------------------------------------------
(* Raw agent outputs and the values json.loads gives for them.  A raw      *)
(* output is its text together with what json.loads does with it: it       *)
(* raises JSONDecodeError (parses = FALSE) or returns a value.              *)

RawText(t, dummy) == [parses |-> FALSE, text |-> t, value |-> dummy]
RawJson(t, v) == [parses |-> TRUE, text |-> t, value |-> v]

\* json.dumps(v): the serialised form of v
Dumps(v) == [json |-> v]

(* Evidence lists *)
EvidenceItem(c) == [content |-> c]

\* what the Evidence Manager may answer
EvidenceOutputs ==
    {RawText("haystack summary", <<>>),
     RawJson("[e1,e2]", <<EvidenceItem("e1"), EvidenceItem("e2")>>)}

\* what the Context Gardener may answer
RankedOutputs ==
    {RawText("ranking notes", <<>>),
     RawJson("[e2]", <<EvidenceItem("e2")>>)}

\* ReasoningBridge._parse_evidence
_parse_evidence(evidence_json) ==
    IF evidence_json.parses
    THEN evidence_json.value
    ELSE <<EvidenceItem(evidence_json.text)>>

(* Drafts *)
SentenceRow(s, ids) == [sentence |-> s, evidence_ids |-> ids]

DraftObject(keys, narrative, sentence_map, claim_ledger) ==
    [shape |-> "object", keys |-> keys, narrative |-> narrative,
     sentence_map |-> sentence_map, claim_ledger |-> claim_ledger]

DraftKeys == {"narrative", "sentence_map", "claim_ledger"}

\* a JSON value that is not an object (an array, a number, null)
DraftArray == [shape |-> "array", keys |-> {}, narrative |-> "",
               sentence_map |-> <<>>, claim_ledger |-> LedgerNoClaims]

\* the value of the local draft_data before it is assigned
NoDraft == [shape |-> "unbound", keys |-> {}, narrative |-> "",
            sentence_map |-> <<>>, claim_ledger |-> LedgerNoClaims]

FV == Claim("factual", "true")
FN == Claim("factual", "false")
FA == Claim("factual", "absent")
OV == Claim("opinion", "true")

\* a ledger of total factual claims, the first valid of them with a pinpoint
LedgerOf(valid, total) ==
    Ledger([i \in 1..total |-> IF i <= valid THEN FV ELSE FN])

\* claim ledgers of the drafts the Structural Drafter may produce
DraftLedgers ==
    {Ledger(<<>>), LedgerNoClaims, Ledger(<<FV>>), Ledger(<<FN>>), Ledger(<<OV>>),
     Ledger(<<FV, FN>>), Ledger(<<FV, OV>>), Ledger(<<FA, OV>>),
     Ledger(<<FV, FV, FN>>), LedgerOf(19, 20), LedgerOf(8, 10)}

ConformingDrafts ==
    {DraftObject(DraftKeys, "narrative", <<SentenceRow("s1", <<"e2">>)>>, l) :
        l \in DraftLedgers}

\* what the Structural Drafter may answer: text that is not JSON, a draft of
\* the expected shape, an object lacking a key, a JSON value that is no object
DraftOutputs ==
    {RawText("plain narrative", NoDraft)}
    \cup {RawJson("draft", d) : d \in ConformingDrafts}
    \cup {RawJson("draft without claim_ledger",
                  DraftObject({"narrative", "sentence_map"}, "narrative", <<>>,
                              LedgerNoClaims)),
          RawJson("draft without sentence_map",
                  DraftObject({"narrative", "claim_ledger"}, "narrative", <<>>,
                              Ledger(<<FV>>))),
          RawJson("[]", DraftArray)}

\* ReasoningBridge._parse_draft
_parse_draft(draft_json) ==
    IF draft_json.parses
    THEN draft_json.value
    ELSE DraftObject(DraftKeys, draft_json.text, <<>>, Ledger(<<>>))

(* Audit reports *)
InversionResults(shape, keys, unsupported_claims) ==
    [shape |-> shape, keys |-> keys, unsupported_claims |-> unsupported_claims]

NoInversion == InversionResults("object", {}, <<>>)

AuditObject(keys, status, error, guidance, lir, metric) ==
    [shape |-> "object", keys |-> keys, audit_status |-> status, error |-> error,
     revision_guidance |-> guidance, logic_inversion_results |-> lir,
     ccc_metric |-> metric]

AuditArray ==
    [shape |-> "array", keys |-> {}, audit_status |-> "", error |-> "",
     revision_guidance |-> <<>>, logic_inversion_results |-> NoInversion,
     ccc_metric |-> NoMetric]

\* the value of the local audit_report before the loop assigns it
NoAudit ==
    [shape |-> "unbound", keys |-> {}, audit_status |-> "", error |-> "",
     revision_guidance |-> <<>>, logic_inversion_results |-> NoInversion,
     ccc_metric |-> NoMetric]

\* a coverage figure the critic reports about itself
SelfReported == [V |-> 1, U |-> 1, ratio |-> Frac(1, 1), threshold |-> Frac(0, 1)]

\* what the Socratic Critic may answer
AuditOutputs ==
    {RawText("not an audit report", NoAudit),
     RawJson("audit PASS with own figure",
             AuditObject({"audit_status", "ccc_metric"}, "PASS", "", <<>>,
                         NoInversion, SelfReported)),
     RawJson("audit FAIL with guidance",
             AuditObject({"audit_status", "revision_guidance",
                          "logic_inversion_results"}, "FAIL", "", <<"cite c2">>,
                         InversionResults("object", {"unsupported_claims"}, <<"c2">>),
                         NoMetric)),
     RawJson("audit without status",
             AuditObject({"logic_inversion_results"}, "", "", <<>>,
                         InversionResults("object", {}, <<>>), NoMetric)),
     RawJson("audit with inversion list",
             AuditObject({"audit_status", "logic_inversion_results"}, "FAIL", "",
                         <<>>, InversionResults("array", {}, <<>>), NoMetric)),
     RawJson("[]", AuditArray)}

\* ReasoningBridge._parse_audit_report
_parse_audit_report(audit_json) ==
    IF audit_json.parses
    THEN audit_json.value
    ELSE AuditObject({"audit_status", "error"}, "FAIL",
                     "Invalid audit report format", <<>>, NoInversion, NoMetric)

----------------------------------------------------------------------------
(* skill_registry.py: the registry file and the commands on it.  A command  *)
(* runs in a process of its own: it loads the file, changes its local copy  *)
(* and saves it.                                                            *)

RegProcs == {1, 2}
SkillNames == {"legal-review-nda-us", "legal-check-gdpr-eu"}

\* json null, and null where a timestamp may stand
None == "null"
NoTime == 0

\* the arguments --domain --action --subject --jurisdiction --location of
\* register; the second command line gives no --location
Descriptors ==
    {[domain |-> "contract", action |-> "review", subject |-> "nda",
      jurisdiction |-> "us", location |-> "skills/nda"],
     [domain |-> "compliance", action |-> "check", subject |-> "gdpr",
      jurisdiction |-> "eu", location |-> None]}

\* the commands that change the registry
RegOps ==
    {[cmd |-> "register", skill_name |-> n, args |-> d, success |-> TRUE] :
        n \in SkillNames, d \in Descriptors}
    \cup {[cmd |-> "use", skill_name |-> n, args |-> None, success |-> b] :
        n \in SkillNames, b \in BOOLEAN}
    \cup {[cmd |-> "remove", skill_name |-> n, args |-> None, success |-> TRUE] :
        n \in SkillNames}
NoOp == [cmd |-> "none"]

\* {"version": "1.0", "skills": {}}
EmptyRegistry == [version |-> "1.0", skills |-> [n \in {} |-> None]]

NoFile == [exists |-> FALSE, content |-> EmptyRegistry]
File(registry) == [exists |-> TRUE, content |-> registry]

\* load_registry
load_registry(file) == IF file.exists THEN file.content ELSE EmptyRegistry

\* skill_name in registry["skills"]
Found(registry, skill_name) == skill_name \in DOMAIN registry.skills

\* registry["skills"].get(skill_name, {}).get(key, default)
Stored(registry, skill_name, key, default) ==
    IF Found(registry, skill_name) THEN registry.skills[skill_name][key]
    ELSE default

\* x or y
Or(x, y) == IF x = None THEN y ELSE x
OrTime(x, y) == IF x = NoTime THEN y ELSE x

\* registry["skills"][skill_name] = info
SetSkill(registry, skill_name, info) ==
    [registry EXCEPT !.skills =
        [n \in DOMAIN registry.skills \cup {skill_name} |->
            IF n = skill_name THEN info ELSE registry.skills[n]]]

\* a register_skill that starts the counters again
register_skill_reset(registry, skill_name, d, now) ==
    SetSkill(registry, skill_name,
        [domain |-> d.domain, action |-> d.action, subject |-> d.subject,
         jurisdiction |-> d.jurisdiction,
         location |-> Or(d.location, "unknown"),
         usage_count |-> 0,
         success_count |-> 0,
         created_at |-> OrTime(Stored(registry, skill_name, "created_at", NoTime), now),
         last_used |-> Stored(registry, skill_name, "last_used", NoTime),
         updated_at |-> now])

\* register_skill, up to save_registry
register_skill(registry, skill_name, d, now) ==
    SetSkill(registry, skill_name,
        [domain |-> d.domain, action |-> d.action, subject |-> d.subject,
         jurisdiction |-> d.jurisdiction,
         location |-> Or(d.location, "unknown"),
         usage_count |-> Stored(registry, skill_name, "usage_count", 0),
         success_count |-> Stored(registry, skill_name, "success_count", 0),
         created_at |-> OrTime(Stored(registry, skill_name, "created_at", NoTime), now),
         last_used |-> Stored(registry, skill_name, "last_used", NoTime),
         updated_at |-> now])

\* a use_skill that counts every use as a success
use_skill_all_succeed(registry, skill_name, success, now) ==
    LET skill_info == registry.skills[skill_name]
    IN SetSkill(registry, skill_name,
        [skill_info EXCEPT !.usage_count = @ + 1,
                           !.success_count = @ + 1,
                           !.last_used = now])

\* a use_skill that counts the use only when it failed
use_skill_failures_only(registry, skill_name, success, now) ==
    LET skill_info == registry.skills[skill_name]
    IN SetSkill(registry, skill_name,
        [skill_info EXCEPT !.usage_count = IF success THEN @ ELSE @ + 1,
                           !.success_count = IF success THEN @ + 1 ELSE @,
                           !.last_used = now])

\* use_skill after the lookup, up to save_registry
use_skill(registry, skill_name, success, now) ==
    LET skill_info == registry.skills[skill_name]
    IN SetSkill(registry, skill_name,
        [skill_info EXCEPT !.usage_count = @ + 1,
                           !.success_count = IF success THEN @ + 1 ELSE @,
                           !.last_used = now])

\* del registry["skills"][skill_name]
remove_skill(registry, skill_name) ==
    [registry EXCEPT !.skills =
        [n \in DOMAIN registry.skills \ {skill_name} |-> registry.skills[n]]]

\* a lookup that only use makes
NotFoundUseOnly(op, registry) ==
    op.cmd = "use" /\ ~Found(registry, op.skill_name)

\* the lookup of use_skill and remove_skill fails
NotFound(op, registry) ==
    op.cmd \in {"use", "remove"} /\ ~Found(registry, op.skill_name)

\* the local registry of a command when it reaches save_registry
Changed(op, registry, now) ==
    CASE op.cmd = "register" -> register_skill(registry, op.skill_name, op.args, now)
      [] op.cmd = "use" -> use_skill(registry, op.skill_name, op.success, now)
      [] op.cmd = "remove" -> remove_skill(registry, op.skill_name)

\* process p starts a command: load_registry, the lookup, and either
\* sys.exit(1) or the change of the local registry
RegLoad(p) ==
    /\ reg_pc[p] = "idle"
    /\ reg_budget[p] > 0
    /\ reg_budget' = [reg_budget EXCEPT ![p] = @ - 1]
    /\ reg_clock' = reg_clock + 1
    /\ \E op \in RegOps :
        LET registry == load_registry(registry_file)
        IN /\ reg_op' = [reg_op EXCEPT ![p] = op]
           /\ IF NotFound(op, registry)
              THEN /\ reg_exit' = [reg_exit EXCEPT ![p] = 1]
                   /\ UNCHANGED <<reg_pc, reg_local>>
              ELSE /\ reg_exit' = [reg_exit EXCEPT ![p] = -1]
                   /\ reg_pc' = [reg_pc EXCEPT ![p] = "loaded"]
                   /\ reg_local' = [reg_local EXCEPT ![p] =
                                        Changed(op, registry, reg_clock)]
    /\ UNCHANGED <<registry_file, reg_writes, reg_uses, bridgeVars, docVars>>

\* process p reaches save_registry: the file is written and the command ends
RegSave(p) ==
    /\ reg_pc[p] = "loaded"
    /\ registry_file' = File(reg_local[p])
    /\ reg_writes' = reg_writes + 1
    /\ reg_pc' = [reg_pc EXCEPT ![p] = "idle"]
    /\ reg_exit' = [reg_exit EXCEPT ![p] = 0]
    /\ reg_uses' =
         LET n == reg_op[p].skill_name
         IN CASE reg_op[p].cmd = "use" -> [reg_uses EXCEPT ![n] = @ + 1]
              [] reg_op[p].cmd = "register"
                   /\ ~Found(load_registry(registry_file), n) ->
                        [reg_uses EXCEPT ![n] = 0]
              [] OTHER -> reg_uses
    /\ UNCHANGED <<reg_op, reg_local, reg_budget, reg_clock, bridgeVars, docVars>>

\* no skill_registry.py command was run and no registry file exists
RegIdle ==
    /\ registry_file = NoFile
    /\ reg_pc = [p \in RegProcs |-> "idle"]
    /\ reg_op = [p \in RegProcs |-> NoOp]
    /\ reg_local = [p \in RegProcs |-> EmptyRegistry]
    /\ reg_exit = [p \in RegProcs |-> -1]
    /\ reg_clock = 1
    /\ reg_writes = 0
    /\ reg_uses = [n \in SkillNames |-> 0]

----------------------------------------------------------------------------
(* extract_contract.py: identify_risks and check_missing_provisions.  A     *)
(* contract text is the sequence of its words, single spaces between them;  *)
(* a position in a text is the index of a word, counted from 0.             *)

\* phrases a contract text is made of
Phrases ==
    {<<"Unlimited", "liability">>, <<"without", "limit">>, <<"PERPETUAL">>,
     <<"indefinite", "term">>, <<"Force", "Majeure">>,
     <<"limitation", "of", "liability">>, <<"such", "as">>,
     <<"and", "other">>, <<"the", "parties">>, <<"confidentiality">>}

RECURSIVE TextsUpTo(_)
TextsUpTo(n) ==
    IF n = 0 THEN {<<>>}
    ELSE LET shorter == TextsUpTo(n - 1)
         IN shorter \cup {t \o ph : t \in shorter, ph \in Phrases}

ContractTexts == TextsUpTo(MaxPhrases)

\* str.lower() on a word
LowerWord(w) ==
    CASE w = "Unlimited" -> "unlimited"
      [] w = "PERPETUAL" -> "perpetual"
      [] w = "Force" -> "force"
      [] w = "Majeure" -> "majeure"
      [] OTHER -> w

\* str.lower() on a text
Lower(text) == [i \in 1..Len(text) |-> LowerWord(text[i])]

\* a pattern of RISK_PATTERNS: its source string, whether the source is free
\* of regular-expression syntax, and for each word position of a match the
\* lower-cased words it accepts
Pattern(source, plain, words) ==
    [source |-> source, plain |-> plain, words |-> words]

RiskType(severity, risk_name, patterns) ==
    [severity |-> severity, risk_name |-> risk_name, patterns |-> patterns]

\* RISK_PATTERNS in iteration order, for the risk types whose patterns are
\* sequences of words; a string value stands for the list holding it
RISK_PATTERNS ==
    <<RiskType("high", "unlimited_liability",
        <<Pattern("unlimited\\s+liabilit", FALSE, <<{"unlimited"}, {"liability"}>>),
          Pattern("without\\s+limit", FALSE, <<{"without"}, {"limit"}>>),
          Pattern("no\\s+cap\\s+on\\s+liabilit", FALSE,
                  <<{"no"}, {"cap"}, {"on"}, {"liability"}>>)>>),
      RiskType("high", "perpetual_term",
        <<Pattern("perpetual", TRUE, <<{"perpetual"}>>),
          Pattern("indefinite\\s+(?:term|period)", FALSE,
                  <<{"indefinite"}, {"term", "period"}>>),
          Pattern("no\\s+termination", FALSE, <<{"no"}, {"termination"}>>)>>),
      RiskType("medium", "missing_force_majeure",
        <<Pattern("force majeure", TRUE, <<{"force"}, {"majeure"}>>)>>),
      RiskType("medium", "missing_liability_cap",
        <<Pattern("limitation of liability", TRUE,
                  <<{"limitation"}, {"of"}, {"liability"}>>)>>),
      RiskType("low", "ambiguous_definitions",
        <<Pattern("including\\s+but\\s+not\\s+limited\\s+to", FALSE,
                  <<{"including"}, {"but"}, {"not"}, {"limited"}, {"to"}>>),
          Pattern("such\\s+as", FALSE, <<{"such"}, {"as"}>>),
          Pattern("and\\s+other", FALSE, <<{"and"}, {"other"}>>)>>)>>

Severities == {"high", "medium", "low"}

\* STANDARD_PROVISIONS, each as its words
STANDARD_PROVISIONS ==
    <<<<"force", "majeure">>, <<"limitation", "of", "liability">>,
      <<"indemnification">>, <<"confidentiality">>,
      <<"intellectual", "property">>, <<"warranties">>, <<"termination">>,
      <<"notice">>, <<"governing", "law">>, <<"dispute", "resolution">>,
      <<"assignment">>, <<"severability">>, <<"entire", "agreement">>,
      <<"amendment">>>>

\* risk_name.replace('_', ' ').title()
Title(risk_name) ==
    CASE risk_name = "unlimited_liability" -> "Unlimited Liability"
      [] risk_name = "perpetual_term" -> "Perpetual Term"
      [] risk_name = "missing_force_majeure" -> "Missing Force Majeure"
      [] risk_name = "missing_liability_cap" -> "Missing Liability Cap"
      [] risk_name = "ambiguous_definitions" -> "Ambiguous Definitions"

\* the positions (from 0) at which the words of text are, one after the
\* other, among those accepted
MatchesAt(words, text) ==
    {start \in 0..(Len(text) - Len(words)) :
        \A j \in 1..Len(words) : text[start + j] \in words[j]}

\* re.findall(pattern, text, re.IGNORECASE) is not empty
Matches(pattern, text) == MatchesAt(pattern.words, Lower(text)) # {}

\* the least element of a non-empty set of numbers
Least(S) == CHOOSE x \in S : \A y \in S : x <= y

\* text.lower().find(pattern.lower()): the source string itself is searched
\* for; a source with regular-expression syntax (a backslash) does not occur
\* in a text made of words
Find(text, pattern) ==
    LET found == MatchesAt(pattern.words, Lower(text))
    IN IF pattern.plain /\ found # {} THEN Least(found) ELSE -1

\* the index of the first pattern of the risk type that matches, 0 if none
FirstMatch(text, risk_type) ==
    LET hits == {i \in 1..Len(risk_type.patterns) :
                    Matches(risk_type.patterns[i], text)}
    IN IF hits = {} THEN 0 ELSE Least(hits)

\* the risk type is appended to risks[severity]: its first matching pattern
\* is found by text.lower().find
Reports(text, risk_type) ==
    /\ FirstMatch(text, risk_type) > 0
    /\ Find(text, risk_type.patterns[FirstMatch(text, risk_type)]) >= 0

\* the dict appended for a reported risk type; context is the text around
\* match_pos
RiskEntry(text, risk_type) ==
    LET pattern == risk_type.patterns[FirstMatch(text, risk_type)]
    IN [type |-> Title(risk_type.risk_name), pattern |-> pattern.source,
        match_pos |-> Find(text, pattern)]

\* identify_risks
identify_risks(text) ==
    [severity \in Severities |->
        LET Appended(risk_type) ==
                risk_type.severity = severity /\ Reports(text, risk_type)
            reported == SelectSeq(RISK_PATTERNS, Appended)
        IN [i \in 1..Len(reported) |-> RiskEntry(text, reported[i])]]

\* provision.lower() not in text_lower
NotIn(provision, text_lower) ==
    MatchesAt([j \in 1..Len(provision) |-> {provision[j]}], text_lower) = {}

\* check_missing_provisions
check_missing_provisions(text) ==
    LET text_lower == Lower(text)
        Missing(provision) == NotIn(provision, text_lower)
    IN SelectSeq(STANDARD_PROVISIONS, Missing)

NoRisks == [severity \in Severities |-> <<>>]

\* main: risks = identify_risks(text)
IdentifyRisks ==
    /\ doc_pc = "risks"
    /\ doc_risks' = identify_risks(doc_text)
    /\ doc_pc' = "provisions"
    /\ UNCHANGED <<doc_text, doc_missing, regVars, bridgeVars>>

\* main: missing_provisions = check_missing_provisions(text)
CheckMissingProvisions ==
    /\ doc_pc = "provisions"
    /\ doc_missing' = check_missing_provisions(doc_text)
    /\ doc_pc' = "report"
    /\ UNCHANGED <<doc_text, doc_risks, regVars, bridgeVars>>

\* no contract is being analysed
DocIdle ==
    /\ doc_pc = "idle"
    /\ doc_text = <<>>
    /\ doc_risks = NoRisks
    /\ doc_missing = <<>>

\* neither script is running
ToolsIdle ==
    /\ RegIdle
    /\ reg_budget = [p \in RegProcs |-> 0]
    /\ DocIdle

----------------------------------------------------------------------------
(* process_haystack *)

NoRequest == [agent |-> "none"]
NoResponse == [agent |-> "none"]

\* a parsed draft that is an object with a claim ledger holding no factual claim
NoFactualClaim(draft) ==
    /\ draft.shape = "object"
    /\ "claim_ledger" \in draft.keys
    /\ SelectSeq(GetClaims(draft.claim_ledger), IsFactual) = <<>>

\* no other call is suspended
NoFrame == [pc |-> "none"]

\* the agent results a call has received, with one more; the history is kept
\* while two calls are interleaved
Received(history, r) ==
    IF suspended = NoFrame THEN history ELSE Append(history, r)

NoResult == [returned |-> FALSE]

Call(a) == [ev |-> "call", agent |-> a]
Ret(a) == [ev |-> "return", agent |-> a]

\* d.get(key, default) on the modelled objects
Get(obj, key, default) == IF key \in obj.keys THEN obj[key] ELSE default

\* SetStatus that keeps a status the report already carries
SetStatusKeepReported(report, status) ==
    [report EXCEPT !.keys = @ \cup {"audit_status"},
                   !.audit_status = IF "audit_status" \in report.keys THEN @ ELSE status]

\* audit_report['audit_status'] = status
SetStatus(report, status) ==
    [report EXCEPT !.keys = @ \cup {"audit_status"}, !.audit_status = status]

\* audit_report['ccc_metric'] = ccc_metric
AttachMetric(report, metric) ==
    [report EXCEPT !.keys = @ \cup {"ccc_metric"}, !.ccc_metric = metric]

\* ccc_metric['ratio'] > ccc_metric['threshold']
GatePassesStrictly(metric) ==
    FracGE(metric.ratio, metric.threshold) /\ metric.ratio # metric.threshold

\* ccc_metric['ratio'] >= ccc_metric['threshold']
GatePasses(metric) == FracGE(metric.ratio, metric.threshold)

\* ShouldRevise with the bound off by one
ShouldReviseOffByOne(cycle, max_revisions) == cycle < max_revisions

\* ShouldRevise that never revises
ShouldReviseNever(cycle, max_revisions) == FALSE

\* revision_cycle < max_revisions - 1
ShouldRevise(cycle, max_revisions) == cycle < max_revisions - 1

\* a loop that ends after its first pass
LoopContinuesNever(cycle, max_revisions) == FALSE

\* the next value of range(max_revisions) exists
LoopContinues(cycle, max_revisions) == cycle + 1 < max_revisions

\* a revision_context that drops the evidence
RevisionContextNoEvidence(draft, report, evidence) ==
    [evidence |-> <<>>,
     previous_draft |-> draft,
     audit_feedback |-> Get(report, "revision_guidance", <<>>),
     unsupported_claims |->
        Get(Get(report, "logic_inversion_results", NoInversion),
            "unsupported_claims", <<>>)]

\* the revision_context of _revise_draft
RevisionContext(draft, report, evidence) ==
    [evidence |-> evidence,
     previous_draft |-> draft,
     audit_feedback |-> Get(report, "revision_guidance", <<>>),
     unsupported_claims |->
        Get(Get(report, "logic_inversion_results", NoInversion),
            "unsupported_claims", <<>>)]

\* the dict process_haystack returns
Bundle(evidence, draft, report) ==
    [returned |-> TRUE, evidence |-> evidence, draft |-> draft,
     audit_report |-> report, status |-> report.audit_status]

\* the exception raised by draft_data['claim_ledger'] / draft_data['sentence_map']
\* when the critic's arguments are evaluated, "" if none
CriticArgsError(draft) ==
    IF draft.shape # "object" THEN "TypeError"
    ELSE IF "claim_ledger" \notin draft.keys THEN "KeyError"
    ELSE IF "sentence_map" \notin draft.keys THEN "KeyError"
    ELSE ""

\* an exception leaves process_haystack
Raise(e, lg) ==
    /\ pc' = "raised"
    /\ exc' = e
    /\ request' = NoRequest
    /\ result' = NoResult
    /\ log' = lg

\* the return statement of process_haystack; audit_report is unbound when the
\* loop body never ran
ReturnBundle(evidence, draft, report, lg) ==
    IF report.shape = "unbound"
    THEN Raise("UnboundLocalError", lg)
    ELSE /\ pc' = "returned"
         /\ exc' = ""
         /\ request' = NoRequest
         /\ result' = Bundle(evidence, draft, report)
         /\ log' = lg

\* the head of the loop body: self.critic(claim_ledger=..., sentence_map=...)
CriticCall(draft, lg) ==
    IF CriticArgsError(draft) # ""
    THEN Raise(CriticArgsError(draft), lg)
    ELSE /\ pc' = "audit"
         /\ exc' = ""
         /\ result' = NoResult
         /\ request' = [agent |-> "critic",
                        claim_ledger |-> Dumps(draft.claim_ledger),
                        sentence_map |-> Dumps(draft.sentence_map)]
         /\ log' = Append(lg, Call("critic"))

\* process_haystack is called: self.evidence_manager(raw_haystack=...)
EvidenceManagerCall ==
    /\ pc = "start"
    /\ pc' = "normalize"
    /\ request' = [agent |-> "evidence_manager", raw_haystack |-> "haystack"]
    /\ log' = Append(log, Call("evidence_manager"))
    /\ UNCHANGED <<cfg, normalized_evidence, ranked_evidence, draft_data,
                   audit_report, ccc_metric, revision_cycle, result, exc,
                   revisions, cccVars, genVars, histVars, parVars, toolVars>>

\* the Evidence Manager answers; _parse_evidence; self.context_gardener(...)
EvidenceManagerReturn ==
    /\ pc = "normalize"
    /\ \E out \in EvidenceOutputs :
        /\ response' = [agent |-> "evidence_manager", normalized_evidence |-> out]
        /\ responses' = Received(responses, response')
        /\ normalized_evidence' = _parse_evidence(out)
        /\ request' = [agent |-> "context_gardener",
                       raw_evidence_items |-> Dumps(normalized_evidence')]
    /\ pc' = "rank"
    /\ log' = log \o <<Ret("evidence_manager"), Call("context_gardener")>>
    /\ UNCHANGED <<cfg, ranked_evidence, draft_data, audit_report, ccc_metric,
                   revision_cycle, result, exc, revisions, cccVars, genVars,
                   unfactual_only, parVars, toolVars>>

\* the Context Gardener answers; _parse_evidence; self.drafter(context=...)
ContextGardenerReturn ==
    /\ pc = "rank"
    /\ \E out \in RankedOutputs :
        /\ response' = [agent |-> "context_gardener", ranked_evidence |-> out]
        /\ responses' = Received(responses, response')
        /\ ranked_evidence' = _parse_evidence(out)
        /\ request' = [agent |-> "drafter",
                       context |-> Dumps([evidence |-> ranked_evidence',
                           mandate |-> "All claims must have evidence pinpoints"])]
    /\ pc' = "draft"
    /\ log' = log \o <<Ret("context_gardener"), Call("drafter")>>
    /\ UNCHANGED <<cfg, normalized_evidence, draft_data, audit_report, ccc_metric,
                   revision_cycle, result, exc, revisions, cccVars, genVars,
                   unfactual_only, parVars, toolVars>>

\* the Structural Drafter answers the first time; _parse_draft; the loop is
\* entered
DrafterReturn ==
    /\ pc = "draft"
    /\ \E out \in DraftOutputs :
        LET draft == _parse_draft(out)
            max_revisions == cfg.max_revision_cycles
            lg == Append(log, Ret("drafter"))
        IN /\ response' = [agent |-> "drafter", draft_narrative |-> out]
           /\ responses' = Received(responses, response')
           /\ unfactual_only' = (unfactual_only /\ NoFactualClaim(draft))
           /\ draft_data' = draft
           /\ IF max_revisions > 0
              THEN /\ revision_cycle' = 0
                   /\ CriticCall(draft, lg)
              ELSE /\ revision_cycle' = revision_cycle
                   /\ ReturnBundle(ranked_evidence, draft, audit_report, lg)
    /\ UNCHANGED <<cfg, normalized_evidence, ranked_evidence, audit_report,
                   ccc_metric, revisions, cccVars, genVars, parVars, toolVars>>

\* the Socratic Critic answers; _parse_audit_report; the CCC hard gate; then
\* break and return, or _revise_draft up to self.drafter(...), or the end of
\* the last cycle and return
CriticReturn ==
    /\ pc = "audit"
    /\ \E out \in AuditOutputs :
        LET report == _parse_audit_report(out)
            metric == _calculate_ccc_metric(cfg, draft_data.claim_ledger,
                                           draft_data.sentence_map)
            max_revisions == cfg.max_revision_cycles
            lg == Append(log, Ret("critic"))
            failed == SetStatus(report, "FAIL")
        IN /\ response' = [agent |-> "critic", audit_report |-> out]
           /\ responses' = Received(responses, response')
           /\ ccc_metric' = metric
           /\ IF report.shape # "object"
              THEN \* audit_report['audit_status'] = ... on a non-object
                   /\ audit_report' = report
                   /\ Raise("TypeError", lg)
                   /\ UNCHANGED revisions
              ELSE IF GatePasses(metric)
              THEN /\ audit_report' = SetStatus(report, "PASS")
                   /\ ReturnBundle(ranked_evidence, draft_data, audit_report', lg)
                   /\ UNCHANGED revisions
              ELSE IF ShouldRevise(revision_cycle, max_revisions)
              THEN /\ audit_report' = failed
                   /\ IF Get(failed, "logic_inversion_results", NoInversion).shape
                            # "object"
                      THEN \* .get('unsupported_claims', []) on a non-object
                           /\ Raise("AttributeError", lg)
                           /\ UNCHANGED revisions
                      ELSE /\ pc' = "revise"
                           /\ exc' = ""
                           /\ result' = NoResult
                           /\ request' =
                                [agent |-> "drafter",
                                 context |-> Dumps(RevisionContext(draft_data, failed,
                                                                   ranked_evidence))]
                           /\ revisions' = revisions + 1
                           /\ log' = Append(lg, Call("drafter"))
              ELSE /\ audit_report' = AttachMetric(failed, metric)
                   /\ UNCHANGED revisions
                   /\ IF LoopContinues(revision_cycle, max_revisions)
                      THEN CriticCall(draft_data, lg)
                      ELSE ReturnBundle(ranked_evidence, draft_data, audit_report', lg)
    /\ revision_cycle' =
         IF pc' = "audit" THEN revision_cycle + 1 ELSE revision_cycle
    /\ UNCHANGED <<cfg, normalized_evidence, ranked_evidence, draft_data, cccVars,
                   genVars, unfactual_only, parVars, toolVars>>

\* the Structural Drafter answers a revision; _parse_draft; the metric of the
\* cycle is attached; the next cycle begins
ReviseReturn ==
    /\ pc = "revise"
    /\ \E out \in DraftOutputs :
        LET draft == _parse_draft(out)
            max_revisions == cfg.max_revision_cycles
            lg == Append(log, Ret("drafter"))
        IN /\ response' = [agent |-> "drafter", draft_narrative |-> out]
           /\ responses' = Received(responses, response')
           /\ unfactual_only' = (unfactual_only /\ NoFactualClaim(draft))
           /\ draft_data' = draft
           /\ audit_report' = AttachMetric(audit_report, ccc_metric)
           /\ IF LoopContinues(revision_cycle, max_revisions)
              THEN /\ revision_cycle' = revision_cycle + 1
                   /\ CriticCall(draft, lg)
              ELSE /\ revision_cycle' = revision_cycle
                   /\ ReturnBundle(ranked_evidence, draft, audit_report', lg)
    /\ UNCHANGED <<cfg, normalized_evidence, ranked_evidence, ccc_metric,
                   revisions, cccVars, genVars, parVars, toolVars>>

----------------------------------------------------------------------------
(* generate_code and the spec-hash gate *)

\* specification texts a caller may pass
SpecTexts == {"spec v1", "spec v2", "spec v1 "}

\* ReasoningBridge._calculate_text_hash: the SHA-256 hex digest of the text
\* (lower-case hex, never empty; distinct texts of the model have distinct
\* digests)
_calculate_text_hash(content) ==
    CASE content = "spec v1" -> "3b1f"
      [] content = "spec v2" -> "77aa"
      [] content = "spec v1 " -> "c04d"
      [] OTHER -> "e3b0"

ActiveSpec(shape, keys, spec_hash) ==
    [shape |-> shape, keys |-> keys, spec_hash |-> spec_hash]

\* the default {} of architecture_ledger.get('active_spec', {})
EmptyActiveSpec == ActiveSpec("object", {}, "")

ArchLedger(keys, active_spec) == [keys |-> keys, active_spec |-> active_spec]

\* spec_hash values a ledger may record
RecordedHashes == {"3b1f", "77aa", "3B1F", "", "0000"}

\* architecture ledgers a caller may pass: without active_spec, with a null
\* active_spec, with an active_spec lacking spec_hash, with a recorded hash
ArchLedgers ==
    {ArchLedger({}, EmptyActiveSpec),
     ArchLedger({"active_spec"}, ActiveSpec("null", {}, "")),
     ArchLedger({"active_spec"}, ActiveSpec("object", {}, ""))}
    \cup {ArchLedger({"active_spec"}, ActiveSpec("object", {"spec_hash"}, h)) :
            h \in RecordedHashes}

\* what the Programming Agent may answer
BuilderOutputs == {"def main(): pass", ""}

\* the exception _verify_spec_hash raises, "" if none: active_spec.get on a
\* value that is no object
VerifyError(ledger) ==
    IF Get(ledger, "active_spec", EmptyActiveSpec).shape # "object"
    THEN "AttributeError"
    ELSE ""

\* _verify_spec_hash that accepts a ledger recording no hash
_verify_spec_hash_lenient(spec_hash, ledger) ==
    LET active_spec == Get(ledger, "active_spec", EmptyActiveSpec)
        expected_hash == Get(active_spec, "spec_hash", "")
    IN expected_hash = "" \/ spec_hash = expected_hash

\* ReasoningBridge._verify_spec_hash
_verify_spec_hash(spec_hash, ledger) ==
    LET active_spec == Get(ledger, "active_spec", EmptyActiveSpec)
        expected_hash == Get(active_spec, "spec_hash", "")
    IN spec_hash = expected_hash

\* a builder invocation that is handed the digest in place of the text
BuilderRequestWithHash(text, ledger) ==
    [agent |-> "builder", spec_md |-> _calculate_text_hash(text),
     architecture_ledger |-> Dumps(ledger)]

\* self.builder(spec_md=spec_md,
\*              architecture_ledger=json.dumps(architecture_ledger))
BuilderRequest(text, ledger) ==
    [agent |-> "builder", spec_md |-> text,
     architecture_ledger |-> Dumps(ledger)]

\* a verification that records a default active_spec in the ledger
LedgerAfterVerifySetdefault(ledger) ==
    IF "active_spec" \in ledger.keys
    THEN ledger
    ELSE ArchLedger({"active_spec"}, EmptyActiveSpec)

\* the caller's ledger after _verify_spec_hash and json.dumps have read it:
\* dict.get never inserts its default
LedgerAfterVerify(ledger) == ledger

\* generate_code is called: the hash is computed and verified, and the
\* builder is invoked or an exception leaves the call
GenerateCodeCall ==
    /\ pc \in {"gen_idle", "gen_returned", "gen_raised"}
    /\ gen_calls < MaxCalls
    /\ gen_calls' = gen_calls + 1
    /\ architecture_ledger' = LedgerAfterVerify(architecture_ledger)
    /\ \E text \in SpecTexts :
        LET spec_hash == _calculate_text_hash(text)
        IN /\ spec_md' = text
           /\ result' = NoResult
           /\ IF VerifyError(architecture_ledger) # ""
              THEN /\ pc' = "gen_raised"
                   /\ exc' = VerifyError(architecture_ledger)
                   /\ request' = NoRequest
                   /\ log' = log
              ELSE IF ~_verify_spec_hash(spec_hash, architecture_ledger)
              THEN /\ pc' = "gen_raised"
                   /\ exc' = "ValueError"
                   /\ request' = NoRequest
                   /\ log' = log
              ELSE /\ pc' = "build"
                   /\ exc' = ""
                   /\ request' = BuilderRequest(text, architecture_ledger)
                   /\ log' = Append(log, Call("builder"))
    /\ UNCHANGED <<cfg, normalized_evidence, ranked_evidence, draft_data,
                   audit_report, ccc_metric, revision_cycle, revisions,
                   ledger_in, metric_out, histVars, parVars, toolVars>>

\* the Programming Agent answers; result.implementation_code is returned
BuilderReturn ==
    /\ pc = "build"
    /\ \E out \in BuilderOutputs :
        /\ response' = [agent |-> "builder", implementation_code |-> out]
        /\ responses' = Received(responses, response')
        /\ result' = [returned |-> TRUE, code |-> response'.implementation_code]
    /\ pc' = "gen_returned"
    /\ exc' = ""
    /\ request' = NoRequest
    /\ log' = Append(log, Ret("builder"))
    /\ UNCHANGED <<cfg, normalized_evidence, ranked_evidence, draft_data,
                   audit_report, ccc_metric, revision_cycle, revisions,
                   ledger_in, metric_out, genVars, unfactual_only, parVars, toolVars>>

\* no generate_code call is in progress
GenIdle ==
    /\ spec_md = ""
    /\ architecture_ledger = ArchLedger({}, EmptyActiveSpec)
    /\ gen_calls = 0
    /\ response = NoResponse
    /\ unfactual_only = TRUE
    /\ responses = <<>>
    /\ current = 1
    /\ suspended = NoFrame

GenInit ==
    /\ cfg \in Configs
    /\ pc = "gen_idle"
    /\ normalized_evidence = <<>>
    /\ ranked_evidence = <<>>
    /\ draft_data = NoDraft
    /\ audit_report = NoAudit
    /\ ccc_metric = NoMetric
    /\ revision_cycle = 0
    /\ request = NoRequest
    /\ result = NoResult
    /\ exc = ""
    /\ log = <<>>
    /\ revisions = 0
    /\ ledger_in = LedgerNoClaims
    /\ metric_out = NoMetric
    /\ spec_md = ""
    /\ architecture_ledger \in ArchLedgers
    /\ gen_calls = 0
    /\ response = NoResponse
    /\ unfactual_only = TRUE
    /\ responses = <<>>
    /\ current = 1
    /\ suspended = NoFrame
    /\ ToolsIdle

GenNext ==
    \/ GenerateCodeCall
    \/ BuilderReturn

SpecGen == GenInit /\ [][GenNext]_vars

RunInit ==
    /\ cfg \in Configs
    /\ pc = "start"
    /\ normalized_evidence = <<>>
    /\ ranked_evidence = <<>>
    /\ draft_data = NoDraft
    /\ audit_report = NoAudit
    /\ ccc_metric = NoMetric
    /\ revision_cycle = 0
    /\ request = NoRequest
    /\ result = NoResult
    /\ exc = ""
    /\ log = <<>>
    /\ revisions = 0

Init ==
    /\ RunInit
    /\ ledger_in = LedgerNoClaims
    /\ metric_out = NoMetric
    /\ GenIdle
    /\ ToolsIdle

Next ==
    \/ EvidenceManagerCall
    \/ EvidenceManagerReturn
    \/ ContextGardenerReturn
    \/ DrafterReturn
    \/ CriticReturn
    \/ ReviseReturn

Spec == Init /\ [][Next]_vars

----------------------------------------------------------------------------
(* Two process_haystack calls on one orchestrator, interleaved at the agent *)
(* invocations.  The variables of the call that is executing are the        *)
(* locals above; the locals of the other call wait in suspended.            *)

\* pipeline.max_revision_cycles of the interleaved calls
ParCycles == 2

ParConfigs ==
    {c \in Configs :
        /\ c.max_revision_cycles = ParCycles
        /\ c.socratic_critic = [keys |-> {"ccc_threshold"},
                                ccc_threshold |-> Frac(1, 2)]}

\* what the agents answer to the interleaved calls
ParEvidenceOutputs == {o \in EvidenceOutputs : o.parses}
ParRankedOutputs == {o \in RankedOutputs : o.parses}
ParDraftOutputs ==
    {o \in DraftOutputs :
        \/ ~o.parses
        \/ o.text = "draft" /\ o.value.claim_ledger \in {Ledger(<<FV>>), Ledger(<<FN>>)}}
ParAuditOutputs ==
    {o \in AuditOutputs :
        o.text \in {"not an audit report", "audit FAIL with guidance", "[]"}}

\* the locals of the call that is executing
Frame ==
    [pc |-> pc, normalized_evidence |-> normalized_evidence,
     ranked_evidence |-> ranked_evidence, draft_data |-> draft_data,
     audit_report |-> audit_report, ccc_metric |-> ccc_metric,
     revision_cycle |-> revision_cycle, request |-> request, result |-> result,
     exc |-> exc, log |-> log, revisions |-> revisions, response |-> response,
     unfactual_only |-> unfactual_only, responses |-> responses]

\* the locals of a call that has not executed its first statement
FreshFrame ==
    [pc |-> "start", normalized_evidence |-> <<>>, ranked_evidence |-> <<>>,
     draft_data |-> NoDraft, audit_report |-> NoAudit, ccc_metric |-> NoMetric,
     revision_cycle |-> 0, request |-> NoRequest, result |-> NoResult,
     exc |-> "", log |-> <<>>, revisions |-> 0, response |-> NoResponse,
     unfactual_only |-> TRUE, responses |-> <<>>]

\* draft_data kept on the orchestrator: a resumed call finds the draft the
\* other call left
ResumeSharedDraft(frame, left) == [frame EXCEPT !.draft_data = left.draft_data]

\* what a resumed call finds in its names: they are locals of
\* process_haystack, so its own values, whatever the call that ran meanwhile
\* left in its own
Resume(frame, left) == frame

\* the executing call is suspended and the other one resumed
SwitchRun ==
    /\ suspended # NoFrame
    /\ current' = 3 - current
    /\ suspended' = Frame
    /\ LET f == Resume(suspended, Frame)
       IN /\ pc' = f.pc
          /\ normalized_evidence' = f.normalized_evidence
          /\ ranked_evidence' = f.ranked_evidence
          /\ draft_data' = f.draft_data
          /\ audit_report' = f.audit_report
          /\ ccc_metric' = f.ccc_metric
          /\ revision_cycle' = f.revision_cycle
          /\ request' = f.request
          /\ result' = f.result
          /\ exc' = f.exc
          /\ log' = f.log
          /\ revisions' = f.revisions
          /\ response' = f.response
          /\ unfactual_only' = f.unfactual_only
          /\ responses' = f.responses
    /\ UNCHANGED <<cfg, cccVars, genVars, toolVars>>

ParInit ==
    /\ cfg \in ParConfigs
    /\ RunInit
    /\ response = NoResponse
    /\ unfactual_only = TRUE
    /\ responses = <<>>
    /\ current = 1
    /\ suspended = FreshFrame
    /\ ToolsIdle
    /\ ledger_in = LedgerNoClaims
    /\ metric_out = NoMetric
    /\ spec_md = ""
    /\ architecture_ledger = ArchLedger({}, EmptyActiveSpec)
    /\ gen_calls = 0

ParNext ==
    \/ EvidenceManagerCall
    \/ EvidenceManagerReturn /\ response'.normalized_evidence \in ParEvidenceOutputs
    \/ ContextGardenerReturn /\ response'.ranked_evidence \in ParRankedOutputs
    \/ DrafterReturn /\ response'.draft_narrative \in ParDraftOutputs
    \/ CriticReturn /\ response'.audit_report \in ParAuditOutputs
    \/ ReviseReturn /\ response'.draft_narrative \in ParDraftOutputs
    \/ SwitchRun

SpecPar == ParInit /\ [][ParNext]_vars

(* process_haystack as a function of the agent results it receives *)

Outcome(p, r, e) == [pc |-> p, result |-> r, exc |-> e]
Running == Outcome("running", NoResult, "")

\* the loop of process_haystack from the head of cycle on, given the agent
\* results rs still to come
RECURSIVE SoloLoop(_, _, _, _, _)
SoloLoop(c, evidence, draft, cycle, rs) ==
    LET max_revisions == c.max_revision_cycles
    IN IF CriticArgsError(draft) # ""
       THEN Outcome("raised", NoResult, CriticArgsError(draft))
       ELSE IF rs = <<>> THEN Running
       ELSE
       LET report == _parse_audit_report(rs[1].audit_report)
           metric == _calculate_ccc_metric(c, draft.claim_ledger, draft.sentence_map)
           failed == SetStatus(report, "FAIL")
           final == AttachMetric(failed, metric)
       IN IF report.shape # "object"
          THEN Outcome("raised", NoResult, "TypeError")
          ELSE IF GatePasses(metric)
          THEN Outcome("returned", Bundle(evidence, draft, SetStatus(report, "PASS")), "")
          ELSE IF ShouldRevise(cycle, max_revisions)
          THEN IF Get(failed, "logic_inversion_results", NoInversion).shape # "object"
               THEN Outcome("raised", NoResult, "AttributeError")
               ELSE IF Len(rs) < 2 THEN Running
               ELSE LET revised == _parse_draft(rs[2].draft_narrative)
                    IN IF LoopContinues(cycle, max_revisions)
                       THEN SoloLoop(c, evidence, revised, cycle + 1,
                                     SubSeq(rs, 3, Len(rs)))
                       ELSE Outcome("returned", Bundle(evidence, revised, final), "")
          ELSE IF LoopContinues(cycle, max_revisions)
               THEN SoloLoop(c, evidence, draft, cycle + 1, Tail(rs))
               ELSE Outcome("returned", Bundle(evidence, draft, final), "")

\* the outcome of a process_haystack call that runs alone and receives rs
Solo(c, rs) ==
    IF Len(rs) < 3 THEN Running
    ELSE LET evidence == _parse_evidence(rs[2].ranked_evidence)
             draft == _parse_draft(rs[3].draft_narrative)
         IN IF c.max_revision_cycles > 0
            THEN SoloLoop(c, evidence, draft, 0, SubSeq(rs, 4, Len(rs)))
            ELSE Outcome("raised", NoResult, "UnboundLocalError")

----------------------------------------------------------------------------
(* A stand-alone call of _calculate_ccc_metric on any claim ledger *)

RECURSIVE SeqsUpTo(_, _)
SeqsUpTo(S, n) ==
    IF n = 0 THEN {<<>>}
    ELSE LET shorter == SeqsUpTo(S, n - 1)
         IN shorter \cup {Append(q, x) : q \in shorter, x \in S}

AllLedgers == {LedgerNoClaims} \cup {Ledger(cs) : cs \in SeqsUpTo(Claims, MaxLedgerLen)}

CCCInit ==
    /\ cfg \in Configs
    /\ pc = "ccc_call"
    /\ normalized_evidence = <<>>
    /\ ranked_evidence = <<>>
    /\ draft_data = NoDraft
    /\ audit_report = NoAudit
    /\ ccc_metric = NoMetric
    /\ revision_cycle = 0
    /\ request = NoRequest
    /\ result = NoResult
    /\ exc = ""
    /\ log = <<>>
    /\ revisions = 0
    /\ ledger_in \in AllLedgers
    /\ metric_out = NoMetric
    /\ GenIdle
    /\ ToolsIdle

CalculateMetric ==
    /\ pc = "ccc_call"
    /\ metric_out' = _calculate_ccc_metric(cfg, ledger_in, <<>>)
    /\ pc' = "ccc_done"
    /\ UNCHANGED <<cfg, normalized_evidence, ranked_evidence, draft_data,
                   audit_report, ccc_metric, revision_cycle, request, result, exc,
                   log, revisions, ledger_in, genVars, histVars, parVars, toolVars>>

CCCNext == CalculateMetric

SpecCCC == CCCInit /\ [][CCCNext]_vars

----------------------------------------------------------------------------
(* skill_registry.py commands run one after the other, and two commands run *)
(* by two processes at the same time                                        *)

\* no ReasoningBridge is at work
BridgeIdle ==
    /\ cfg = [max_revision_cycles |-> 1,
              socratic_critic |-> [keys |-> {}, ccc_threshold |-> Zero]]
    /\ RunInit
    /\ ledger_in = LedgerNoClaims
    /\ metric_out = NoMetric
    /\ GenIdle

RegInit ==
    /\ BridgeIdle
    /\ DocIdle
    /\ RegIdle
    /\ reg_budget = [p \in RegProcs |-> IF p = 1 THEN MaxRegOps ELSE 0]

RegNext == \E p \in RegProcs : RegLoad(p) \/ RegSave(p)

SpecReg == RegInit /\ [][RegNext]_vars

\* registries the file holds when the two processes start: none, and both
\* names registered, one of them used twice
SharedRegistries ==
    {EmptyRegistry,
     use_skill(use_skill(
        register_skill(
            register_skill(EmptyRegistry, "legal-review-nda-us",
                           CHOOSE d \in Descriptors : d.location # None, 1),
            "legal-check-gdpr-eu",
            CHOOSE d \in Descriptors : d.location = None, 2),
        "legal-check-gdpr-eu", TRUE, 3), "legal-check-gdpr-eu", FALSE, 4)}

RegParInit ==
    /\ BridgeIdle
    /\ DocIdle
    /\ \E registry \in SharedRegistries :
        /\ registry_file = IF registry = EmptyRegistry THEN NoFile ELSE File(registry)
        /\ reg_uses = [n \in SkillNames |->
                          Stored(registry, n, "usage_count", 0)]
        /\ reg_writes = IF registry = EmptyRegistry THEN 0 ELSE 4
        /\ reg_clock = IF registry = EmptyRegistry THEN 1 ELSE 5
    /\ reg_pc = [p \in RegProcs |-> "idle"]
    /\ reg_op = [p \in RegProcs |-> NoOp]
    /\ reg_local = [p \in RegProcs |-> EmptyRegistry]
    /\ reg_exit = [p \in RegProcs |-> -1]
    /\ reg_budget = [p \in RegProcs |-> 1]

SpecRegPar == RegParInit /\ [][RegNext]_vars

----------------------------------------------------------------------------
(* extract_contract.py run on one contract text *)

DocInit ==
    /\ BridgeIdle
    /\ RegIdle
    /\ reg_budget = [p \in RegProcs |-> 0]
    /\ doc_pc = "risks"
    /\ doc_text \in ContractTexts
    /\ doc_risks = NoRisks
    /\ doc_missing = <<>>

DocNext ==
    \/ IdentifyRisks
    \/ CheckMissingProvisions

SpecDoc == DocInit /\ [][DocNext]_vars

----------------------------------------------------------------------------
(* Properties *)

\* what the properties read off the history
Invocations(a) == Cardinality({i \in 1..Len(log) : log[i] = Call(a)})
Completions(a) == Cardinality({i \in 1..Len(log) : log[i] = Ret(a)})
LastEvent == IF log = <<>> THEN Call("none") ELSE log[Len(log)]

\* the factual claims of a ledger and those with a pinpoint, by position
FactualAt(cs) == {i \in 1..Len(cs) : cs[i].claim_type = "factual"}
ValidAt(cs) == {i \in FactualAt(cs) : cs[i].has_valid_pinpoint = "true"}

\* the claims of a ledger that are not factual removed
RECURSIVE OnlyFactual(_)
OnlyFactual(cs) ==
    IF cs = <<>> THEN <<>>
    ELSE IF Head(cs).claim_type = "factual"
         THEN <<Head(cs)>> \o OnlyFactual(Tail(cs))
         ELSE OnlyFactual(Tail(cs))

\* the status the gate gives a ledger under a threshold: PASS iff V/U >= threshold,
\* with 0.0 for V/U when U = 0
GateStatus(claim_ledger, threshold) ==
    LET v == Cardinality(ValidAt(claim_ledger.claims))
        u == Cardinality(FactualAt(claim_ledger.claims))
    IN IF (u > 0 /\ v * threshold.d >= threshold.n * u)
          \/ (u = 0 /\ 0 >= threshold.n)
       THEN "PASS" ELSE "FAIL"

\* the critic has just answered in this cycle: its report was parsed and the
\* gate evaluated on draft_data
CycleAudited ==
    \/ pc = "revise"
    \/ pc \in {"returned", "raised"} /\ LastEvent = Ret("critic")

\* C1: for every claim ledger _calculate_ccc_metric returns U = number of
\* factual claims, V = number of factual claims with a pinpoint, 0 <= V <= U,
\* ratio = V/U when U > 0 and 0.0 when U = 0, 0 <= ratio <= 1, and claims of
\* another type change neither U nor V.
C1_MetricCountsFactualClaims ==
    pc = "ccc_done" =>
        LET m == metric_out
            cs == ledger_in.claims
            stripped == _calculate_ccc_metric(cfg, Ledger(OnlyFactual(cs)), <<>>)
        IN /\ m.U = Cardinality(FactualAt(cs))
           /\ m.V = Cardinality(ValidAt(cs))
           /\ 0 <= m.V /\ m.V <= m.U
           /\ m.ratio.d > 0
           /\ m.U > 0 => m.ratio.n * m.U = m.V * m.ratio.d
           /\ m.U = 0 => m.ratio = Zero
           /\ 0 <= m.ratio.n /\ m.ratio.n <= m.ratio.d
           /\ stripped.U = m.U /\ stripped.V = m.V

\* a ledger mixing factual claims with and without pinpoint and an opinion
\* carrying a pinpoint was measured: ratio 1/2
C1_Witness ==
    /\ pc = "ccc_done"
    /\ ledger_in = Ledger(<<FV, OV, FN>>)
    /\ metric_out.V = 1 /\ metric_out.U = 2
    /\ metric_out.ratio = Frac(1, 2)

\* C2: the audit_status the controller records in a cycle is PASS iff the
\* ratio recomputed from the current draft's claim ledger is >= the threshold,
\* else FAIL, whatever the critic's report said; the bundle's status is the
\* status recorded in the last executed cycle.
C2_StatusFromLedgerAlone ==
    /\ (CycleAudited /\ audit_report.shape = "object") =>
          /\ "audit_status" \in audit_report.keys
          /\ audit_report.audit_status =
                GateStatus(draft_data.claim_ledger, ConfiguredThreshold(cfg))
    /\ pc = "returned" =>
          /\ CycleAudited
          /\ result.status = audit_report.audit_status
          /\ result.status =
                GateStatus(result.draft.claim_ledger, ConfiguredThreshold(cfg))

\* the critic reported PASS with its own coverage figure and the controller
\* recorded FAIL for the cycle
C2_Witness ==
    /\ pc = "revise"
    /\ audit_report.audit_status = "FAIL"
    /\ "ccc_metric" \in audit_report.keys
    /\ audit_report.ccc_metric = SelfReported

\* C3: with max_revision_cycles >= 1, one call of process_haystack invokes the
\* Draft stage at most max_revision_cycles times.
C3_DraftInvocationsBounded ==
    cfg.max_revision_cycles >= 1 =>
        Invocations("drafter") <= cfg.max_revision_cycles

\* a run that used its whole budget: two cycles, two Draft invocations
C3_Witness ==
    /\ pc = "returned"
    /\ cfg.max_revision_cycles = 2
    /\ Invocations("drafter") = 2
    /\ result.status = "FAIL"

\* the coverage metric of a ledger under the configured threshold, by position
MetricOf(claim_ledger) ==
    LET v == Cardinality(ValidAt(claim_ledger.claims))
        u == Cardinality(FactualAt(claim_ledger.claims))
    IN [V |-> v, U |-> u,
        ratio |-> IF u > 0 THEN Frac(v, u) ELSE Zero,
        threshold |-> ConfiguredThreshold(cfg)]

\* the gate decision of the cycle just audited
GateOfCycle == GateStatus(draft_data.claim_ledger, ConfiguredThreshold(cfg))

\* C4: when the gate passes in some cycle the loop terminates: the run
\* returns status PASS and no Draft or Audit stage is invoked afterwards; if
\* the first draft passes, exactly one Draft and one Audit invocation occurred
\* and no revision context was built.
C4_GatePassReturnsPass ==
    (CycleAudited /\ GateOfCycle = "PASS") =>
        /\ pc = "returned"
        /\ result.status = "PASS"
        /\ ~ENABLED Next
        /\ revision_cycle = 0 =>
              /\ Invocations("drafter") = 1
              /\ Invocations("critic") = 1
              /\ revisions = 0

\* C5: when process_haystack returns with status PASS, the returned audit
\* report carries the coverage metric (V, U, ratio, threshold) computed for
\* the returned draft's claim ledger.
C5_PassReportCarriesMetric ==
    (pc = "returned" /\ result.status = "PASS") =>
        /\ "ccc_metric" \in result.audit_report.keys
        /\ result.audit_report.ccc_metric = MetricOf(result.draft.claim_ledger)

\* C6: when the gate fails in the last permitted cycle, no further Draft
\* invocation happens, no exception is raised, and the caller receives the
\* bundle with status FAIL whose audit report carries the coverage metric of
\* the returned draft.
C6_ExhaustionReturnsFailBundle ==
    (CycleAudited /\ GateOfCycle = "FAIL"
        /\ revision_cycle = cfg.max_revision_cycles - 1) =>
        /\ pc = "returned"
        /\ exc = ""
        /\ result.status = "FAIL"
        /\ result.draft = draft_data
        /\ "ccc_metric" \in result.audit_report.keys
        /\ result.audit_report.ccc_metric = MetricOf(result.draft.claim_ledger)
        /\ Invocations("drafter") = revision_cycle + 1

\* C7: when the gate fails in cycle c < max_cycles - 1, the cycle's status is
\* marked FAIL and the Draft stage is re-invoked once with a revision context
\* made of the ranked evidence, the previous draft, that cycle's revision
\* guidance and unsupported-claim list; the cycle counter then increases by
\* one and the new draft is the one audited next; the re-invocation happens in
\* no other situation.
C7_FailedGateRevisesOnce ==
    /\ (CycleAudited /\ GateOfCycle = "FAIL"
          /\ revision_cycle < cfg.max_revision_cycles - 1) =>
          /\ pc = "revise"
          /\ audit_report.audit_status = "FAIL"
          /\ request =
               [agent |-> "drafter",
                context |-> Dumps(
                   [evidence |-> ranked_evidence,
                    previous_draft |-> draft_data,
                    audit_feedback |->
                       IF "revision_guidance" \in audit_report.keys
                       THEN audit_report.revision_guidance ELSE <<>>,
                    unsupported_claims |->
                       IF "logic_inversion_results" \in audit_report.keys
                          /\ "unsupported_claims"
                                \in audit_report.logic_inversion_results.keys
                       THEN audit_report.logic_inversion_results.unsupported_claims
                       ELSE <<>>])]
          /\ revisions = revision_cycle + 1
          /\ Invocations("drafter") = revision_cycle + 2
    /\ pc = "revise" =>
          /\ GateOfCycle = "FAIL"
          /\ revision_cycle < cfg.max_revision_cycles - 1
    /\ pc = "audit" =>
          /\ revisions = revision_cycle
          /\ Completions("drafter") = revision_cycle + 1
          /\ request.claim_ledger = Dumps(draft_data.claim_ledger)

\* C8: with max_revision_cycles = 1, process_haystack performs exactly one
\* Draft invocation and exactly one Audit invocation and never builds a
\* revision context.
C8_SingleCycleOneDraftOneAudit ==
    (cfg.max_revision_cycles = 1 /\ pc \in {"returned", "raised"}) =>
        /\ Invocations("drafter") = 1
        /\ Invocations("critic") = 1
        /\ revisions = 0

\* C9: the Audit invocation of a cycle starts only after the Draft invocation
\* that produced the cycle's draft has completed, and the Draft invocation of
\* the next cycle starts only after the cycle's Audit invocation has
\* completed and its report has been parsed; no invocation starts while
\* another is in flight.
C9_StagesStrictlySequential ==
    /\ \A i \in 1..Len(log) :
        /\ log[i] = Call("critic") =>
              /\ i > 1
              /\ log[i - 1] = Ret("drafter")
              /\ Cardinality({j \in 1..i : log[j] = Call("critic")})
                    = Cardinality({j \in 1..i : log[j] = Ret("drafter")})
        /\ (log[i] = Call("drafter") /\ \E j \in 1..(i - 1) : log[j] = Call("drafter")) =>
              /\ log[i - 1] = Ret("critic")
              /\ Cardinality({j \in 1..i : log[j] = Ret("critic")})
                    = Cardinality({j \in 1..(i - 1) : log[j] = Call("drafter")})
        /\ (log[i].ev = "call" /\ i < Len(log)) => log[i + 1] = Ret(log[i].agent)
    /\ pc = "revise" =>
          /\ audit_report.shape = "object"
          /\ "audit_status" \in audit_report.keys

\* the audit of the second cycle is in flight
C9_Witness ==
    /\ pc = "audit"
    /\ revision_cycle = 1
    /\ Invocations("critic") = 2
    /\ Completions("drafter") = 2

\* the ledger records a hash and it is the digest of the text
HashMatches(text, ledger) ==
    /\ "active_spec" \in ledger.keys
    /\ ledger.active_spec.shape = "object"
    /\ "spec_hash" \in ledger.active_spec.keys
    /\ ledger.active_spec.spec_hash = _calculate_text_hash(text)

\* C10: generate_code never invokes the Build stage (nor any other agent) when
\* the SHA-256 hex hash of spec_text differs from the ledger's
\* active_spec.spec_hash or the ledger has no such entry; it then ends with an
\* error instead of returning code.
C10_MismatchBlocksBuild ==
    /\ [](pc \in {"build", "gen_returned"} =>
            HashMatches(spec_md, architecture_ledger))
    /\ [][(gen_calls' = gen_calls + 1
            /\ ~HashMatches(spec_md', architecture_ledger)) =>
            /\ pc' = "gen_raised"
            /\ exc' # ""
            /\ result' = NoResult
            /\ request' = NoRequest
            /\ log' = log]_vars

\* a call with a matching text was built, the next call with another text was
\* blocked
C10_Witness ==
    /\ pc = "gen_raised"
    /\ exc = "ValueError"
    /\ gen_calls = 2
    /\ Invocations("builder") = 1
    /\ Completions("builder") = 1

\* C11: when the hash of the spec text equals the ledger's
\* active_spec.spec_hash, generate_code invokes the Build stage exactly once,
\* with exactly that text and that ledger, and returns the Build stage's output
\* unchanged; whether a call reaches the Build stage depends on the text and
\* the ledger alone, so equal inputs give equal verdicts on every call.
C11_MatchBuildsOnceAndReturns ==
    /\ [](pc = "gen_returned" =>
            /\ result = [returned |-> TRUE, code |-> response.implementation_code]
            /\ Invocations("builder") = Completions("builder"))
    /\ [](Invocations("builder") <= gen_calls)
    /\ [][gen_calls' = gen_calls + 1 =>
            /\ (pc' = "build") = HashMatches(spec_md', architecture_ledger)
            /\ HashMatches(spec_md', architecture_ledger) =>
                  /\ request' = [agent |-> "builder", spec_md |-> spec_md',
                                 architecture_ledger |-> Dumps(architecture_ledger)]
                  /\ log' = Append(log, Call("builder"))]_vars
    /\ [][pc = "build" =>
            /\ pc' = "gen_returned"
            /\ gen_calls' = gen_calls
            /\ log' = Append(log, Ret("builder"))
            /\ result'.code = response'.implementation_code]_vars

\* two calls with matching texts were both built and both returned the
\* builder's code
C11_Witness ==
    /\ pc = "gen_returned"
    /\ gen_calls = 2
    /\ Invocations("builder") = 2
    /\ result.code = "def main(): pass"

\* C18: generate_code only reads the architecture ledger; after any sequence
\* of calls, built or blocked, the caller's ledger is the value it passed in.
C18_LedgerNeverWritten ==
    [][architecture_ledger' = architecture_ledger]_vars

\* three calls on one ledger: two were built and returned, the third was
\* blocked, and the ledger still records its hash
C18_Witness ==
    /\ pc = "gen_raised"
    /\ gen_calls = 3
    /\ Completions("builder") = 2
    /\ architecture_ledger =
         ArchLedger({"active_spec"}, ActiveSpec("object", {"spec_hash"}, "77aa"))

\* the configuration the specification calls valid: a positive cycle budget
\* and a threshold in [0, 1]
PositiveCycles == cfg.max_revision_cycles >= 1
ThresholdInRange ==
    /\ FracGE(ConfiguredThreshold(cfg), Zero)
    /\ FracGE(Frac(1, 1), ConfiguredThreshold(cfg))
ValidConfig == PositiveCycles /\ ThresholdInRange

\* the run is over: it returned or an exception left it
RunOver == pc \in {"returned", "raised"}

\* C12: with max_revision_cycles 0 or negative, process_haystack invokes no
\* stage at all and fails at run start.
C12_NonPositiveCyclesInvokeNothing ==
    ~PositiveCycles => (log = <<>> /\ pc \in {"start", "raised"})

\* C13: with a coverage threshold outside [0, 1], no stage is invoked, no
\* bundle is returned and the value is never used in a gate comparison.
C13_ThresholdOutOfRangeFailsFast ==
    ~ThresholdInRange =>
        /\ Invocations("evidence_manager") = 0
        /\ ~result.returned
        /\ ccc_metric = NoMetric

\* C14: with a valid configuration, process_haystack raises no error and
\* returns a complete bundle whatever the agents answer.
C14_ValidConfigAlwaysReturnsBundle ==
    ValidConfig =>
        /\ exc = ""
        /\ RunOver =>
              /\ result.returned
              /\ result.draft.shape = "object"
              /\ result.audit_report.shape = "object"
              /\ result.status \in {"PASS", "FAIL"}

\* C15: when the Audit output of the last executed cycle does not parse, the
\* returned audit report has audit_status FAIL, the bundle status is FAIL and
\* the report carries the invalid-audit-report-format note.
C15_UnparseableAuditReturnsFail ==
    (pc = "returned" /\ response.agent = "critic"
        /\ ~response.audit_report.parses) =>
        /\ result.audit_report.audit_status = "FAIL"
        /\ result.status = "FAIL"
        /\ "error" \in result.audit_report.keys
        /\ result.audit_report.error = "Invalid audit report format"

\* C16: a draft without factual claims has ratio 0 and fails the gate unless
\* the threshold is 0; when every draft of a run is such a draft and the
\* threshold is above 0, the run makes exactly max_revision_cycles audits and
\* ends with status FAIL.
C16_UnfactualDraftsExhaustAndFail ==
    /\ (CycleAudited /\ NoFactualClaim(draft_data)) =>
          /\ ccc_metric.U = 0
          /\ ccc_metric.ratio = Zero
          /\ GatePasses(ccc_metric) = (ConfiguredThreshold(cfg).n <= 0)
    /\ (RunOver /\ unfactual_only /\ PositiveCycles
          /\ ConfiguredThreshold(cfg).n > 0) =>
          /\ Invocations("critic") = cfg.max_revision_cycles
          /\ pc = "returned"
          /\ result.status = "FAIL"

\* C20: with max_revision_cycles >= 1, a run whose agent invocations all
\* return makes at most max_revision_cycles Audit invocations and ends by
\* returning status PASS or status FAIL.
C20_RunEndsAcceptedOrExhausted ==
    PositiveCycles =>
        /\ Invocations("critic") <= cfg.max_revision_cycles
        /\ revision_cycle < cfg.max_revision_cycles
        /\ (request = NoRequest /\ pc # "start") =>
              /\ pc = "returned"
              /\ result.status \in {"PASS", "FAIL"}

\* the outcome a call has reached, by its locals
FrameOutcome(f) ==
    Outcome(IF f.pc \in {"returned", "raised"} THEN f.pc ELSE "running",
            f.result, f.exc)

\* C19: two interleaved process_haystack calls share no run state: a step of
\* one call leaves every local of the other (its draft, cycle count and audit
\* report among them) as it was, a call that is resumed finds its locals as it
\* left them, and each call ends as it would when executed alone with the
\* agent results it received.
C19_InterleavedRunsIsolated ==
    /\ [](\A f \in {Frame, suspended} : FrameOutcome(f) = Solo(cfg, f.responses))
    /\ [][IF current' = current
          THEN suspended' = suspended
          ELSE suspended' = Frame /\ Frame' = suspended]_vars

\* the executing call has revised its draft and returned PASS while the other
\* call, holding another draft, waits for its first audit
C19_Witness ==
    /\ pc = "returned"
    /\ result.status = "PASS"
    /\ revisions = 1
    /\ suspended.pc = "audit"
    /\ suspended.revision_cycle = 0
    /\ suspended.draft_data # draft_data
    /\ suspended.draft_data.narrative = "plain narrative"

\* C21: with max_revision_cycles >= 1, when process_haystack returns, the
\* Draft stage was invoked as often as the Audit stage, the draft in the
\* bundle is the draft the last Audit invocation and the last gate evaluation
\* were run on, and the returned audit report is what the last cycle's Audit
\* output parses to (with the recorded status and, on FAIL, the metric), not
\* merged with an earlier report.
C21_ReturnedDraftWasAudited ==
    /\ [](pc = "returned" /\ PositiveCycles =>
            /\ Invocations("drafter") = Invocations("critic")
            /\ Invocations("critic") = Completions("critic")
            /\ LastEvent = Ret("critic")
            /\ result.draft = draft_data
            /\ ccc_metric = MetricOf(result.draft.claim_ledger)
            /\ response.agent = "critic"
            /\ LET parsed == _parse_audit_report(response.audit_report)
               IN result.audit_report \in
                    {SetStatus(parsed, "PASS"),
                     AttachMetric(SetStatus(parsed, "FAIL"), ccc_metric)})
    /\ [][pc' = "returned" =>
            /\ pc = "audit"
            /\ request.agent = "critic"
            /\ request.claim_ledger = Dumps(result'.draft.claim_ledger)
            /\ request.sentence_map = Dumps(result'.draft.sentence_map)
            /\ draft_data' = draft_data]_vars

\* a run returned after two cycles: the first report carried guidance, the
\* returned one is the fallback for an unparseable second report
C21_Witness ==
    /\ pc = "returned"
    /\ revisions = 1
    /\ Invocations("critic") = 2
    /\ result.status = "FAIL"
    /\ result.audit_report.error = "Invalid audit report format"
    /\ "revision_guidance" \notin result.audit_report.keys

\* C22: the Normalize stage and then the Rank stage are invoked exactly once
\* each, before the first Draft invocation; the ranked evidence is assigned
\* when the Rank stage answers and never again, every Draft invocation gets
\* it, and the bundle's evidence is it.
C22_EvidenceRankedOnceAndKept ==
    /\ [](/\ Invocations("evidence_manager") <= 1
          /\ Invocations("context_gardener") <= 1
          /\ Invocations("drafter") >= 1 =>
                /\ Len(log) >= 5
                /\ SubSeq(log, 1, 5) =
                      <<Call("evidence_manager"), Ret("evidence_manager"),
                        Call("context_gardener"), Ret("context_gardener"),
                        Call("drafter")>>
          /\ request.agent = "drafter" =>
                request.context.json.evidence = ranked_evidence
          /\ pc = "returned" => result.evidence = ranked_evidence)
    /\ [][IF pc = "rank"
          THEN ranked_evidence' = _parse_evidence(response'.ranked_evidence)
          ELSE ranked_evidence' = ranked_evidence]_vars

\* a revision is being drafted on the fallback evidence of an unparseable
\* ranking
C22_Witness ==
    /\ pc = "revise"
    /\ request.agent = "drafter"
    /\ Invocations("drafter") = 2
    /\ ranked_evidence = <<EvidenceItem("ranking notes")>>

\* C23: the gate comparison is inclusive and exact: with U > 0 factual claims,
\* V of them valid, and threshold p/q, the cycle is recorded PASS iff
\* V*q >= U*p; 19 valid of 20 at threshold 0.95 passes, 8 valid of 10 fails.
C23_GateInclusiveAtBoundary ==
    (CycleAudited /\ audit_report.shape = "object"
        /\ draft_data.claim_ledger.keys = {"claims"}) =>
        LET cs == draft_data.claim_ledger.claims
            U == Cardinality({i \in 1..Len(cs) : cs[i].claim_type = "factual"})
            V == Cardinality({i \in 1..Len(cs) :
                                /\ cs[i].claim_type = "factual"
                                /\ cs[i].has_valid_pinpoint = "true"})
            p == ConfiguredThreshold(cfg).n
            q == ConfiguredThreshold(cfg).d
        IN /\ U > 0 => ((audit_report.audit_status = "PASS") = (V * q >= U * p))
           /\ (U = 20 /\ V = 19 /\ p = 19 /\ q = 20) =>
                  audit_report.audit_status = "PASS"
           /\ (U = 10 /\ V = 8 /\ p = 19 /\ q = 20) =>
                  audit_report.audit_status = "FAIL"

\* 19 valid of 20 factual claims under the default threshold 0.95: PASS on
\* the first audit, no revision
C23_Witness ==
    /\ pc = "returned"
    /\ draft_data.claim_ledger = LedgerOf(19, 20)
    /\ "ccc_threshold" \notin cfg.socratic_critic.keys
    /\ ccc_metric.ratio = ccc_metric.threshold
    /\ result.status = "PASS"
    /\ Invocations("critic") = 1
    /\ revisions = 0

\* the skills the registry file holds
StoredSkills == load_registry(registry_file).skills

\* process p writes the file in this step, ending its command
Saves(p) == reg_pc[p] = "loaded" /\ reg_pc'[p] = "idle"

\* process p starts a command in this step
Starts(p) == reg_budget'[p] < reg_budget[p]

DescriptorKeys == {"domain", "action", "subject", "jurisdiction", "location"}

\* C24: use_skill on a registered skill raises its stored usage_count by
\* exactly 1, its success_count by 1 if success and by 0 if not, and leaves
\* its domain, action, subject, jurisdiction and location and every other
\* skill's record as they were.
C24_UseCountsOnce ==
    [][\A p \in RegProcs : (Saves(p) /\ reg_op[p].cmd = "use") =>
        LET n == reg_op[p].skill_name
            before == StoredSkills
            after == StoredSkills'
        IN /\ n \in DOMAIN before
           /\ DOMAIN after = DOMAIN before
           /\ after[n].usage_count = before[n].usage_count + 1
           /\ after[n].success_count =
                before[n].success_count + (IF reg_op[p].success THEN 1 ELSE 0)
           /\ \A k \in DescriptorKeys : after[n][k] = before[n][k]
           /\ \A m \in DOMAIN before \ {n} : after[m] = before[m]]_vars

\* a failed use of a skill used before, with another skill registered
C24_Witness ==
    /\ reg_pc[1] = "idle"
    /\ reg_exit[1] = 0
    /\ reg_op[1].cmd = "use"
    /\ ~reg_op[1].success
    /\ DOMAIN StoredSkills = SkillNames
    /\ StoredSkills[reg_op[1].skill_name].usage_count = 2
    /\ StoredSkills[reg_op[1].skill_name].success_count = 1

\* C25: use_skill and remove_skill on a name that is not in the registry end
\* with exit status 1 and leave the registry file as it was: nothing is
\* created, changed or removed and the file is not written.
C25_UnknownNameChangesNothing ==
    /\ [](\A p \in RegProcs : reg_exit[p] = 1 =>
            /\ reg_pc[p] = "idle"
            /\ reg_op[p].cmd \in {"use", "remove"})
    /\ [][\A p \in RegProcs :
            (/\ Starts(p)
             /\ reg_op'[p].cmd \in {"use", "remove"}
             /\ reg_op'[p].skill_name \notin DOMAIN StoredSkills) =>
                /\ reg_exit'[p] = 1
                /\ reg_pc'[p] = "idle"
                /\ registry_file' = registry_file
                /\ reg_writes' = reg_writes]_vars

\* remove of a name that is not registered, while another name is
C25_Witness ==
    /\ reg_exit[1] = 1
    /\ reg_op[1].cmd = "remove"
    /\ registry_file.exists
    /\ DOMAIN StoredSkills = SkillNames \ {reg_op[1].skill_name}
    /\ reg_writes = 1

\* C26: registering a name that is stored replaces its domain, action,
\* subject, jurisdiction and location and keeps its usage_count,
\* success_count, created_at and last_used; registering a name that is not
\* stored (never registered, or removed) starts it at usage_count 0 and
\* success_count 0.
C26_ReRegisterKeepsCounters ==
    [][\A p \in RegProcs : (Saves(p) /\ reg_op[p].cmd = "register") =>
        LET n == reg_op[p].skill_name
            d == reg_op[p].args
            before == StoredSkills
            after == StoredSkills'
        IN /\ n \in DOMAIN after
           /\ \A k \in DescriptorKeys \ {"location"} : after[n][k] = d[k]
           /\ after[n].location =
                (IF d.location = None THEN "unknown" ELSE d.location)
           /\ IF n \in DOMAIN before
              THEN \A k \in {"usage_count", "success_count", "created_at",
                             "last_used"} : after[n][k] = before[n][k]
              ELSE /\ after[n].usage_count = 0
                   /\ after[n].success_count = 0]_vars

\* a skill registered, used twice and then registered again with other
\* arguments
C26_Witness ==
    \E n \in DOMAIN StoredSkills :
        /\ reg_op[1].cmd = "register"
        /\ reg_op[1].skill_name = n
        /\ reg_exit[1] = 0
        /\ StoredSkills[n].usage_count = 2
        /\ StoredSkills[n].created_at = 1
        /\ StoredSkills[n].last_used = 3
        /\ StoredSkills[n].updated_at = 4

\* C27: from an empty registry, after any sequence of register, use and
\* remove commands every stored skill has 0 <= success_count <= usage_count,
\* and its usage_count is the number of use commands on the name since it was
\* registered while absent.
C27_CountersConsistent ==
    \A n \in DOMAIN StoredSkills :
        /\ 0 <= StoredSkills[n].success_count
        /\ StoredSkills[n].success_count <= StoredSkills[n].usage_count
        /\ StoredSkills[n].usage_count = reg_uses[n]

\* a name registered third, after two commands that wrote the file, and then
\* used once without success
C27_Witness ==
    \E n \in DOMAIN StoredSkills :
        /\ reg_writes = 4
        /\ StoredSkills[n].created_at = 3
        /\ StoredSkills[n].usage_count = 1
        /\ StoredSkills[n].success_count = 0

\* both processes have run their command to the end
BothDone ==
    \A p \in RegProcs : reg_budget[p] = 0 /\ reg_pc[p] = "idle" /\ reg_exit[p] = 0

\* C28: when two processes each run a registry command and their load and
\* save steps interleave, the file afterwards reflects both commands: every
\* completed use is counted, and two registrations of different names are
\* both stored.
C28_NoLostUpdate ==
    BothDone =>
        /\ (\A p \in RegProcs : reg_op[p].cmd = "use") =>
              \A n \in DOMAIN StoredSkills :
                  StoredSkills[n].usage_count = reg_uses[n]
        /\ (/\ \A p \in RegProcs : reg_op[p].cmd = "register"
            /\ reg_op[1].skill_name # reg_op[2].skill_name) =>
              DOMAIN StoredSkills = SkillNames

\* the report holds an entry of this type under this severity
Reported(severity, type) ==
    \E i \in 1..Len(doc_risks[severity]) : doc_risks[severity][i].type = type

\* the entries of this type in the whole report
EntriesOf(type) ==
    {<<severity, i>> \in Severities \X (1..MaxPhrases * 3) :
        /\ i <= Len(doc_risks[severity])
        /\ doc_risks[severity][i].type = type}

\* the lower-cased text holds these words one after the other
Mentions(phrase) ==
    \E start \in 0..Len(doc_text) :
        /\ start + Len(phrase) <= Len(doc_text)
        /\ \A j \in 1..Len(phrase) : LowerWord(doc_text[start + j]) = phrase[j]

\* the provision is in the list check_missing_provisions returned
ListedMissing(provision) ==
    \E i \in 1..Len(doc_missing) : doc_missing[i] = provision

\* C29: once identify_risks has returned, each risk type is in the report at
\* most once, and a risk type one of whose patterns matches the contract
\* text, letter case ignored, is in the report under its severity.
C29_MatchingRiskTypeReportedOnce ==
    doc_pc # "risks" =>
        \A k \in 1..Len(RISK_PATTERNS) :
            LET risk_type == RISK_PATTERNS[k]
            IN /\ Cardinality(EntriesOf(Title(risk_type.risk_name))) <= 1
               /\ (\E i \in 1..Len(risk_type.patterns) :
                      Matches(risk_type.patterns[i], doc_text))
                    => Reported(risk_type.severity, Title(risk_type.risk_name))

\* C30: once both functions have returned, 'Missing Force Majeure' is among
\* the medium risks exactly when the text does not mention 'force majeure',
\* 'Missing Liability Cap' exactly when it does not mention 'limitation of
\* liability', and each is reported exactly when check_missing_provisions
\* lists the provision as missing.
C30_MissingRisksAgreeWithMissingProvisions ==
    doc_pc = "report" =>
        /\ Reported("medium", "Missing Force Majeure")
             <=> ~Mentions(<<"force", "majeure">>)
        /\ Reported("medium", "Missing Liability Cap")
             <=> ~Mentions(<<"limitation", "of", "liability">>)
        /\ Reported("medium", "Missing Force Majeure")
             <=> ListedMissing(<<"force", "majeure">>)
        /\ Reported("medium", "Missing Liability Cap")
             <=> ListedMissing(<<"limitation", "of", "liability">>)

====
